---- MODULE Spec2Model ----
(***************************************************************************)
(* A model of pytesseract (src/pytesseract/api.py and its variant          *)
(* src/pytesseract/tesseract.py): the options-to-arguments compiler, the   *)
(* process runner, the request builders and the output parsers.            *)
(*                                                                         *)
(* Conventions.  A Python str is a sequence of one-character strings, a    *)
(* bytes object a sequence of integers 0..255.  An Optional[T] is a        *)
(* sequence of length 0 (None) or 1 (the value).  A pathlib.Path is        *)
(* represented by its str().  A dict is the sequence of its (key, value)   *)
(* pairs in insertion order, keys distinct.  An Enum member is a record    *)
(* [name, value].                                                          *)
(***************************************************************************)
EXTENDS Integers, Sequences, FiniteSets, TLC

VARIABLES
    options,          \* the caller's TesseractOptions record (SpecArguments)
    arguments_ret,    \* Optional: what the last get_arguments() call returned
    tesseract_result, \* the text handed to the parsers (SpecParsers)
    parsed,           \* Optional: [parser, records] of the last parser run
    os_name,          \* os.name of the interpreter: "nt" or "posix"
    buffer,           \* the caller's BytesIO object: [content, pos]
    call,             \* Optional: the inputs of the last public call
    process,          \* Optional: the subprocess the last call spawned
    ret,              \* Optional: how the last call ended (return / raise)
    previous          \* Optional: outcome of the run_tesseract call before the last

vars == <<options, arguments_ret, tesseract_result, parsed,
          os_name, buffer, call, process, ret, previous>>

None == <<>>
Some(x) == <<x>>

(***************************************************************************)
(* Bounds of the model.                                                    *)
(***************************************************************************)
MaxLangs == 2        \* longest languages list
MaxConfig == 2       \* most entries of a config mapping
MaxBufLen == 2       \* most bytes the caller's buffer holds
MaxLines == 3        \* most lines of a parser input
MaxFields == 13      \* most tab-separated fields of a TSV line

(***************************************************************************)
(* Python str helpers.                                                     *)
(***************************************************************************)
Range(s) == {s[i] : i \in DOMAIN s}

SeqsUpTo(S, n) == UNION {[1..k -> S] : k \in 0..n}

\* sep.join(parts)
RECURSIVE join(_, _)
join(sep, parts) ==
    IF Len(parts) = 0 THEN <<>>
    ELSE IF Len(parts) = 1 THEN parts[1]
    ELSE parts[1] \o sep \o join(sep, Tail(parts))

\* s.split(c) for a one-character separator c: always count(c) + 1 pieces
RECURSIVE split(_, _)
split(s, c) ==
    IF c \notin Range(s) THEN <<s>>
    ELSE LET i == CHOOSE k \in DOMAIN s :
                     s[k] = c /\ \A j \in 1..(k - 1) : s[j] # c
         IN <<SubSeq(s, 1, i - 1)>> \o split(SubSeq(s, i + 1, Len(s)), c)

DigitChars == <<"0", "1", "2", "3", "4", "5", "6", "7", "8", "9">>

\* str(n) for a non-negative int
RECURSIVE str_int(_)
str_int(n) ==
    IF n < 10 THEN <<DigitChars[n + 1]>>
    ELSE str_int(n \div 10) \o <<DigitChars[(n % 10) + 1]>>

(***************************************************************************)
(* TesseractOptions and get_arguments (api.py 159-209, the same text in    *)
(* tesseract.py 195-245).                                                  *)
(***************************************************************************)
\* fields(self), in declaration order
FieldNames == <<"tessdata_path", "user_words_file", "user_patterns_file",
                "dpi", "log_level", "languages", "config",
                "page_segmentation_mode", "ocr_engine_mode">>

field_to_argument_map ==
    [tessdata_path |-> <<"-", "-", "t", "e", "s", "s", "d", "a", "t", "a", "-", "d", "i", "r">>,
     user_words_file |-> <<"-", "-", "u", "s", "e", "r", "-", "w", "o", "r", "d", "s">>,
     user_patterns_file |-> <<"-", "-", "u", "s", "e", "r", "-", "p", "a", "t", "t", "e", "r", "n", "s">>,
     dpi |-> <<"-", "-", "d", "p", "i">>,
     log_level |-> <<"-", "-", "l", "o", "g", "l", "e", "v", "e", "l">>,
     languages |-> <<"-", "l">>,
     config |-> <<"-", "c">>,
     page_segmentation_mode |-> <<"-", "-", "p", "s", "m">>,
     ocr_engine_mode |-> <<"-", "-", "o", "e", "m">>]

\* Enum members the model draws from
LogLevel_ALL == [name |-> "ALL", value |-> <<"A", "L", "L">>]
PSM_OSD_ONLY == [name |-> "OSD_ONLY", value |-> 0]
PSM_RAW_LINE == [name |-> "RAW_LINE", value |-> 13]
OEM_TESSERACT_ONLY == [name |-> "TESSERACT_ONLY", value |-> 0]
OEM_DEFAULT == [name |-> "DEFAULT", value |-> 3]

PathFields == {"tessdata_path", "user_words_file", "user_patterns_file"}
EnumFields == {"log_level", "page_segmentation_mode", "ocr_engine_mode"}
IntEnumFields == {"page_segmentation_mode", "ocr_engine_mode"}

\* TesseractOptions(): every field defaults to None
DefaultOptions == [f \in Range(FieldNames) |-> None]

\* bool(value) for a value of the field's declared type.  A Path has no
\* __bool__ or __len__ and is always true; an int (IntEnum included) is true
\* iff non-zero; a str (StrEnum included), list or dict iff non-empty.
Truthy(name, value) ==
    CASE name \in PathFields -> TRUE
      [] name = "dpi" -> value # 0
      [] name = "log_level" -> Len(value.value) > 0
      [] name \in IntEnumFields -> value.value # 0
      [] name = "languages" -> Len(value) > 0
      [] name = "config" -> Len(value) > 0

\* `if value := getattr(self, name)`: None is false
walrus_test(self, name) ==
    /\ self[name] # None
    /\ Truthy(name, self[name][1])

\* "+".join(value)
languages_value_sep(value) == join(<<",">>, value)
languages_value(value) == join(<<"+">>, value)

\* " ".join([f"{k}={v}" for k, v in value.items()])
config_value_reversed(value) ==
    join(<<" ">>, [i \in DOMAIN value |->
                      value[Len(value) + 1 - i][1] \o <<"=">> \o value[Len(value) + 1 - i][2]])
config_value(value) ==
    join(<<" ">>, [i \in DOMAIN value |-> value[i][1] \o <<"=">> \o value[i][2]])

\* the if / elif chain on the value, then str(value)
value_token(name, value) ==
    IF name \in EnumFields
    THEN (IF name \in IntEnumFields THEN str_int(value.value) ELSE value.value)
    ELSE IF name = "languages" THEN languages_value(value)
    ELSE IF name = "config" THEN config_value(value)
    ELSE IF name = "dpi" THEN str_int(value)
    ELSE value

\* one iteration of `for f in fields(self)`: what arguments.extend() adds
field_tokens(self, name) ==
    IF walrus_test(self, name)
    THEN <<field_to_argument_map[name], value_token(name, self[name][1])>>
    ELSE <<>>

RECURSIVE get_arguments_from(_, _)
get_arguments_from(self, i) ==
    IF i > Len(FieldNames) THEN <<>>
    ELSE field_tokens(self, FieldNames[i]) \o get_arguments_from(self, i + 1)

get_arguments(self) == get_arguments_from(self, 1)

(***************************************************************************)
(* The argument compiler as a state machine: the caller builds a           *)
(* TesseractOptions record (a mutable dataclass), assigns its fields and   *)
(* calls get_arguments().                                                  *)
(***************************************************************************)
LangCodes == {<<"e", "n", "g">>, <<"f", "r", "a">>}
ConfigKeys == {<<"k">>, <<"w">>}
ConfigVals == {<<"1">>, <<>>}

\* dicts of at most n entries: sequences of (key, value) pairs, keys distinct
Dicts(n) ==
    {d \in SeqsUpTo(ConfigKeys \X ConfigVals, n) :
        \A i, j \in DOMAIN d : i # j => d[i][1] # d[j][1]}

\* the values of its declared type a field is assigned in the model
FieldValues(name) ==
    CASE name = "tessdata_path" -> {<<"/", "t">>}
      [] name = "user_words_file" -> {<<"u">>}
      [] name = "user_patterns_file" -> {<<"p">>}
      [] name = "dpi" -> {0, 70}
      [] name = "log_level" -> {LogLevel_ALL}
      [] name = "languages" -> SeqsUpTo(LangCodes, MaxLangs)
      [] name = "config" -> Dicts(MaxConfig)
      [] name = "page_segmentation_mode" -> {PSM_OSD_ONLY, PSM_RAW_LINE}
      [] name = "ocr_engine_mode" -> {OEM_TESSERACT_ONLY, OEM_DEFAULT}

InitArguments ==
    /\ options = DefaultOptions
    /\ arguments_ret = None

InitParsers ==
    /\ tesseract_result = <<>>
    /\ parsed = None

InitProgram ==
    /\ buffer = [content |-> <<>>, pos |-> 0]
    /\ call = None
    /\ process = None
    /\ ret = None
    /\ previous = None

argVars == <<options, arguments_ret>>
parserVars == <<tesseract_result, parsed>>
programVars == <<os_name, buffer, call, process, ret, previous>>

\* options.<name> = value (or None)
SetField ==
    \E i \in DOMAIN FieldNames :
        \E v \in {None} \cup {Some(x) : x \in FieldValues(FieldNames[i])} :
            /\ options' = [options EXCEPT ![FieldNames[i]] = v]
            /\ options' # options
            /\ arguments_ret' = None
            /\ UNCHANGED <<parserVars, programVars>>

\* options.get_arguments()
GetArguments ==
    /\ arguments_ret' = Some(get_arguments(options))
    /\ UNCHANGED <<options, parserVars, programVars>>

NextArguments == SetField \/ GetArguments

ArgumentsInit ==
    InitArguments /\ InitParsers /\ InitProgram /\ os_name = "posix"

SpecArguments == ArgumentsInit /\ [][NextArguments]_vars

(***************************************************************************)
(* Claims about get_arguments, checked under SpecArguments.                *)
(***************************************************************************)
FlagL == <<"-", "l">>
FlagC == <<"-", "c">>

\* a field that is set and, for the two collections, not empty
FieldPresent(name) ==
    /\ options[name] # None
    /\ name \in {"languages", "config"} => Len(options[name][1]) > 0

PresentFields == SelectSeq(FieldNames, FieldPresent)

\* C1: get_arguments returns only (flag, value) pairs: one pair per present
\* field, the flags in field-declaration order, nothing for an absent field,
\* and the empty list for the record with no field set.
C1_PairsInDeclarationOrder ==
    arguments_ret # None =>
        LET a == arguments_ret[1] IN
        /\ Len(a) = 2 * Len(PresentFields)
        /\ \A i \in DOMAIN PresentFields :
               a[2 * i - 1] = field_to_argument_map[PresentFields[i]]
        /\ (options = DefaultOptions => a = <<>>)

\* C7: for a non-empty languages list, -l is immediately followed by one
\* token that splits on "+" into exactly the codes, in their order.
C7_LanguagesJoinedInOrder ==
    (arguments_ret # None /\ options.languages # None
        /\ Len(options.languages[1]) > 0) =>
        LET a == arguments_ret[1] IN
        /\ Cardinality({i \in DOMAIN a : a[i] = FlagL}) = 1
        /\ \E i \in 1..(Len(a) - 1) :
               /\ a[i] = FlagL
               /\ split(a[i + 1], "+") = options.languages[1]

C7_Witness ==
    /\ arguments_ret # None
    /\ options.languages # None
    /\ Len(options.languages[1]) = 2
    /\ options.languages[1][1] # options.languages[1][2]
    /\ options.tessdata_path # None
    /\ \E i \in DOMAIN arguments_ret[1] : arguments_ret[1][i] = FlagL

\* the (key, value) pairs a -c value token spells: its pieces between single
\* spaces, each cut at its first "="
KeyValuePairs(token) ==
    IF token = <<>> THEN <<>>
    ELSE LET pieces == split(token, " ") IN
         [i \in DOMAIN pieces |->
             LET kv == split(pieces[i], "=") IN
             <<kv[1], join(<<"=">>, Tail(kv))>>]

ConfigCompiled ==
    LET a == arguments_ret[1] IN
    /\ Cardinality({i \in DOMAIN a : a[i] = FlagC}) = 1
    /\ \E i \in 1..(Len(a) - 1) :
           /\ a[i] = FlagC
           /\ KeyValuePairs(a[i + 1]) = options.config[1]

\* C8 as stated: for every config mapping that is set, -c is immediately
\* followed by one token holding the key=value pairs joined by single
\* spaces in insertion order.
C8_AnyConfigCompiled ==
    (arguments_ret # None /\ options.config # None) => ConfigCompiled

\* C8 amended: the same for every non-empty config mapping; an empty mapping
\* emits nothing.
C8_NonEmptyConfigCompiled ==
    /\ (arguments_ret # None /\ options.config # None
           /\ Len(options.config[1]) > 0) => ConfigCompiled
    /\ (arguments_ret # None /\ options.config = Some(<<>>)) =>
           \A i \in DOMAIN arguments_ret[1] : arguments_ret[1][i] # FlagC

C8_Witness ==
    /\ arguments_ret # None
    /\ options.config # None
    /\ Len(options.config[1]) = 2
    /\ options.languages # None
    /\ Len(options.languages[1]) > 0
    /\ \E i \in DOMAIN arguments_ret[1] : arguments_ret[1][i] = FlagC

(***************************************************************************)
(* The output parsers (api.py 236-239, 266-267, 270-286, 313-314).         *)
(***************************************************************************)
Min(a, b) == IF a < b THEN a ELSE b

\* the line boundaries of str.splitlines() among the model's characters
LineBreaks == {"\n", "\r", "\f"}

\* the whitespace str.strip() removes among the model's characters
Whitespace == {" ", "\t", "\n", "\r", "\f"}

\* text.splitlines(): no empty last line, "\r\n" is one boundary
RECURSIVE splitlines(_)
splitlines(s) ==
    IF s = <<>> THEN <<>>
    ELSE IF Range(s) \cap LineBreaks = {} THEN <<s>>
    ELSE LET i == CHOOSE k \in DOMAIN s :
                     s[k] \in LineBreaks /\ \A j \in 1..(k - 1) : s[j] \notin LineBreaks
             n == IF s[i] = "\r" /\ i < Len(s) /\ s[i + 1] = "\n" THEN 2 ELSE 1
         IN <<SubSeq(s, 1, i - 1)>> \o splitlines(SubSeq(s, i + n, Len(s)))

\* line.strip()
RECURSIVE strip(_)
strip(s) ==
    IF s = <<>> THEN s
    ELSE IF s[1] \in Whitespace THEN strip(Tail(s))
    ELSE IF s[Len(s)] \in Whitespace THEN strip(SubSeq(s, 1, Len(s) - 1))
    ELSE s

\* dict(zip(keys, values)) for distinct keys: the pairs up to the shorter one
dict_zip(keys, values) ==
    [i \in 1..Min(Len(keys), Len(values)) |-> <<keys[i], values[i]>>]

\* the characters of a str, each a str of length 1
chars(s) == [i \in DOMAIN s |-> <<s[i]>>]

box_keys == <<"symbol", "left", "bottom", "right", "top", "page">>

tsv_keys == <<"level", "page_num", "block_num", "par_num", "line_num",
              "word_num", "left", "top", "width", "height", "conf", "text">>

box_to_dict_unstripped(line) == dict_zip(box_keys, chars(line))
box_to_dict(line) == dict_zip(box_keys, chars(strip(line)))

tsv_to_dict_on_space(line) == dict_zip(tsv_keys, split(line, " "))
tsv_to_dict(line) == dict_zip(tsv_keys, split(line, "\t"))

\* lines[1:]
DropFirst(lines) == IF Len(lines) = 0 THEN lines ELSE Tail(lines)

\* get_textbox 266-267: [_box_to_dict(l) for l in lines[1:]]
textbox_records(text) ==
    LET lines == DropFirst(splitlines(text)) IN
    [i \in DOMAIN lines |-> box_to_dict(lines[i])]

\* get_textdata 313-314: [_tsv_to_dict(l) for l in lines[1:]]
textdata_records(text) ==
    LET lines == DropFirst(splitlines(text)) IN
    [i \in DOMAIN lines |-> tsv_to_dict(lines[i])]

(***************************************************************************)
(* The parsers as a state machine: a result text drawn from a bounded set  *)
(* is run through either parser.                                           *)
(***************************************************************************)
\* a line of n tab-separated one-digit fields (n = 0: the empty line)
TsvLine(n) == join(<<"\t">>, [i \in 1..n |-> <<DigitChars[(i % 10) + 1]>>])

TsvFieldCounts == {0, 1, 2, MaxFields - 2, MaxFields - 1, MaxFields}

ParserLines ==
    {TsvLine(n) : n \in TsvFieldCounts} \cup
    {<<"A", " ", "1", "0", " ", "2", "0", " ", "3">>,
     <<" ", "A", "1">>,
     <<"\t", "B", " ">>,
     <<"A", "\t", "\t", "B">>}

ParserTexts ==
    {join(sep, lines) \o tail :
        lines \in SeqsUpTo(ParserLines, MaxLines),
        sep \in {<<"\n">>, <<"\r", "\n">>, <<"\r">>},
        tail \in {<<>>, <<"\n">>}}

InitParserInput ==
    /\ tesseract_result \in ParserTexts
    /\ parsed = None

ParseBox ==
    /\ parsed' = Some([parser |-> "box", records |-> textbox_records(tesseract_result)])
    /\ UNCHANGED <<tesseract_result, argVars, programVars>>

ParseTsv ==
    /\ parsed' = Some([parser |-> "tsv", records |-> textdata_records(tesseract_result)])
    /\ UNCHANGED <<tesseract_result, argVars, programVars>>

NextParsers == ParseBox \/ ParseTsv

ParsersInit ==
    InitArguments /\ InitParserInput /\ InitProgram /\ os_name = "posix"

SpecParsers == ParsersInit /\ [][NextParsers]_vars

(***************************************************************************)
(* Claims about the parsers, checked under SpecParsers.                    *)
(***************************************************************************)
ResultLines == splitlines(tesseract_result)

\* line without its leading and trailing whitespace, by positions
Stripped(line) ==
    LET keep == {k \in DOMAIN line : line[k] \notin Whitespace} IN
    IF keep = {} THEN <<>>
    ELSE SubSeq(line, CHOOSE k \in keep : \A j \in keep : k <= j,
                      CHOOSE k \in keep : \A j \in keep : k >= j)

NumTabs(line) == Cardinality({k \in DOMAIN line : line[k] = "\t"})

\* the values of a record, joined again with tabs
Rejoined(rec) == join(<<"\t">>, [j \in DOMAIN rec |-> rec[j][2]])

IsPrefix(p, s) == Len(p) <= Len(s) /\ SubSeq(s, 1, Len(p)) = p

\* C9: the word parser drops the first line and returns one record per
\* remaining line, in order; a record maps the line's tab-separated fields
\* positionally onto the twelve keys, and a line of fewer than twelve fields
\* gives a record without the trailing keys.
C9_WordRecordsPositional ==
    (parsed # None /\ parsed[1].parser = "tsv") =>
        LET recs == parsed[1].records IN
        /\ Len(recs) = (IF Len(ResultLines) = 0 THEN 0 ELSE Len(ResultLines) - 1)
        /\ \A i \in DOMAIN recs :
              LET line == ResultLines[i + 1]
                  rec == recs[i]
              IN /\ Len(rec) = Min(Len(tsv_keys), NumTabs(line) + 1)
                 /\ \A j \in DOMAIN rec :
                       /\ rec[j][1] = tsv_keys[j]
                       /\ "\t" \notin Range(rec[j][2])
                 /\ IF Len(rec) < Len(tsv_keys)
                    THEN Rejoined(rec) = line
                    ELSE IsPrefix(Rejoined(rec), line)
                         /\ (Len(Rejoined(rec)) < Len(line)
                               => line[Len(Rejoined(rec)) + 1] = "\t")

C9_Witness ==
    /\ parsed # None
    /\ parsed[1].parser = "tsv"
    /\ Len(parsed[1].records) = 2
    /\ Len(parsed[1].records[1]) = 2
    /\ Len(parsed[1].records[2]) = Len(tsv_keys)
    /\ NumTabs(ResultLines[3]) = Len(tsv_keys) - 1

\* the box records are one per line after the first, in order, each mapping
\* the first six characters of Cut(line) onto the six keys
BoxRecordsOf(recs, lines, Cut(_)) ==
    /\ Len(recs) = (IF Len(lines) = 0 THEN 0 ELSE Len(lines) - 1)
    /\ \A i \in DOMAIN recs :
          LET text == Cut(lines[i + 1]) IN
          /\ Len(recs[i]) = Min(Len(box_keys), Len(text))
          /\ \A j \in DOMAIN recs[i] :
                recs[i][j] = <<box_keys[j], <<text[j]>>>>

Whole(line) == line

\* C10 as stated: the box parser drops the first line and nothing else and
\* returns one record per remaining line, in order, mapping the first six
\* characters of the line onto symbol, left, bottom, right, top, page.
C10_BoxRecordsFromLine ==
    (parsed # None /\ parsed[1].parser = "box") =>
        BoxRecordsOf(parsed[1].records, ResultLines, Whole)

\* C10 amended: the same, with the first six characters of the line taken
\* after its leading and trailing whitespace is stripped.
C10_BoxRecordsFromStrippedLine ==
    (parsed # None /\ parsed[1].parser = "box") =>
        BoxRecordsOf(parsed[1].records, ResultLines, Stripped)

C10_Witness ==
    /\ parsed # None
    /\ parsed[1].parser = "box"
    /\ Len(parsed[1].records) = 2
    /\ Len(parsed[1].records[1]) > 0
    /\ ResultLines[2][1] \in Whitespace
    /\ Len(parsed[1].records[2]) = Len(box_keys)
    /\ Len(ResultLines[3]) > Len(box_keys)

(***************************************************************************)
(* The process runner (api.py 19-73).                                      *)
(***************************************************************************)
\* os.environ.get("TESSERACT_PATH") or "tesseract", with the variable unset
TESSERACT_PATH == <<"t", "e", "s", "s", "e", "r", "a", "c", "t">>

STDIN == <<"s", "t", "d", "i", "n">>
STDOUT == <<"s", "t", "d", "o", "u", "t">>
MAKEBOX == <<"m", "a", "k", "e", "b", "o", "x">>
TSV == <<"t", "s", "v">>

\* the character of a code point, for the code points the model's bytes spell
chr(cp) ==
    CASE cp = 9 -> "\t"
      [] cp = 10 -> "\n"
      [] cp = 32 -> " "
      [] cp = 65 -> "A"
      [] cp = 66 -> "B"
      [] cp = 69 -> "E"
      [] cp = 233 -> "U+00E9"

\* bytes.decode("utf-8"), strict, for one- and two-byte forms: Some(text), or
\* None where decode raises UnicodeDecodeError
RECURSIVE decode_utf8(_)
decode_utf8(b) ==
    IF b = <<>> THEN Some(<<>>)
    ELSE IF b[1] < 128
    THEN LET rest == decode_utf8(Tail(b)) IN
         IF rest = None THEN None ELSE Some(<<chr(b[1])>> \o rest[1])
    ELSE IF b[1] >= 194 /\ b[1] <= 223 /\ Len(b) >= 2 /\ b[2] >= 128 /\ b[2] <= 191
    THEN LET rest == decode_utf8(SubSeq(b, 3, Len(b))) IN
         IF rest = None THEN None
         ELSE Some(<<chr((b[1] - 192) * 64 + (b[2] - 128))>> \o rest[1])
    ELSE None

\* subprocess.list2cmdline: an empty argument or one with a space or a tab is
\* put in double quotes (the model's arguments hold no quote or backslash)
list2cmdline(seq) ==
    join(<<" ">>,
         [i \in DOMAIN seq |->
             IF seq[i] = <<>> \/ " " \in Range(seq[i]) \/ "\t" \in Range(seq[i])
             THEN <<"\"">> \o seq[i] \o <<"\"">>
             ELSE seq[i]])

\* how the started program splits its command line into argv (Windows)
RECURSIVE parse_cmdline(_, _, _, _)
parse_cmdline(s, cur, inquote, started) ==
    IF s = <<>> THEN (IF started THEN <<cur>> ELSE <<>>)
    ELSE IF s[1] = "\"" THEN parse_cmdline(Tail(s), cur, ~inquote, TRUE)
    ELSE IF s[1] \in {" ", "\t"} /\ ~inquote
    THEN (IF started THEN <<cur>> ELSE <<>>) \o parse_cmdline(Tail(s), <<>>, FALSE, FALSE)
    ELSE parse_cmdline(Tail(s), cur \o <<s[1]>>, inquote, TRUE)

\* how sh -c splits a command string of plain words
shell_words(s) == SelectSeq(split(s, " "), LAMBDA w : w # <<>>)

\* Popen(command, shell=True) with command a list.  On Windows the list is
\* joined by list2cmdline and run through cmd.exe, so the engine's argv is
\* the whole list.  On POSIX the call runs ["/bin/sh", "-c"] + command: only
\* command[0] is the command string, the other items become the shell's own
\* positional parameters and never reach the engine.
popen_argv(os, command) ==
    IF os = "nt"
    THEN parse_cmdline(list2cmdline(command), <<>>, FALSE, FALSE)
    ELSE shell_words(command[1])

\* `x or None` for an Optional dict (env) and an Optional Path (cwd)
env_or_None(env) == IF env # None /\ Len(env[1]) > 0 THEN env ELSE None
cwd_or_None(cwd) == cwd

\* stdin.seek(0); stdin.read(): the bytes read and the buffer afterwards
BytesIO_read(b) ==
    [data |-> SubSeq(b.content, b.pos + 1, Len(b.content)),
     buffer |-> [b EXCEPT !.pos = IF b.pos > Len(b.content) THEN b.pos ELSE Len(b.content)]]

\* lines 63-67: image_data and the state the stdin object is left in
image_data_no_seek(stdin) ==
    IF stdin # None
    THEN [data |-> Some(BytesIO_read(stdin[1]).data), buffer |-> Some(BytesIO_read(stdin[1]).buffer)]
    ELSE [data |-> None, buffer |-> None]
image_data(stdin) ==
    IF stdin # None
    THEN LET r == BytesIO_read([stdin[1] EXCEPT !.pos = 0]) IN
         [data |-> Some(r.data), buffer |-> Some(r.buffer)]
    ELSE [data |-> None, buffer |-> None]

\* lines 71-73: what the call returns, or the UnicodeDecodeError it raises
run_result_swapped(returncode, stdout, stderr) ==
    LET text == decode_utf8(IF returncode = 0 THEN stderr ELSE stdout) IN
    IF text = None THEN [kind |-> "raise", exc |-> "UnicodeDecodeError"]
    ELSE [kind |-> "return", value |-> text[1]]
run_result_stdout(returncode, stdout, stderr) ==
    LET text == decode_utf8(stdout) IN
    IF text = None THEN [kind |-> "raise", exc |-> "UnicodeDecodeError"]
    ELSE [kind |-> "return", value |-> text[1]]
run_result(returncode, stdout, stderr) ==
    LET text == decode_utf8(IF returncode = 0 THEN stdout ELSE stderr) IN
    IF text = None THEN [kind |-> "raise", exc |-> "UnicodeDecodeError"]
    ELSE [kind |-> "return", value |-> text[1]]

\* run_tesseract(arguments, stdin=, env=, cwd=) against an engine that ends
\* with outcome = [returncode, stdout, stderr]: the process spawned, the
\* stdin object afterwards, and how the call ends
run_tesseract(arguments, stdin, env, cwd, os, outcome) ==
    LET command == <<TESSERACT_PATH>> \o arguments
        input == image_data(stdin)
    IN [process |-> [arguments |-> arguments,
                     argv |-> popen_argv(os, command),
                     env |-> env_or_None(env),
                     cwd |-> cwd_or_None(cwd),
                     input |-> input.data,
                     returncode |-> outcome.returncode,
                     stdout |-> outcome.stdout,
                     stderr |-> outcome.stderr],
        buffer |-> input.buffer,
        ret |-> run_result(outcome.returncode, outcome.stdout, outcome.stderr)]

(***************************************************************************)
(* The request builders: get_text, get_textbox, get_textdata of api.py     *)
(* (212-314) and of its variant tesseract.py (248-368).                    *)
(***************************************************************************)
Modules == {"api", "tesseract"}

\* lines 220-223 (api.py): isinstance(image, (Path, str))
api_request(image) ==
    [raises |-> FALSE,
     inputbase |-> IF image.type \in {"Path", "str"} THEN image.path ELSE STDIN,
     use_stdin |-> image.type = "BytesIO"]

\* lines 256-265 (tesseract.py): Path, BytesIO, else TypeError
tesseract_request(image) ==
    IF image.type = "Path"
    THEN [raises |-> FALSE, inputbase |-> image.path, use_stdin |-> FALSE]
    ELSE IF image.type = "BytesIO"
    THEN [raises |-> FALSE, inputbase |-> STDIN, use_stdin |-> TRUE]
    ELSE [raises |-> TRUE, inputbase |-> STDIN, use_stdin |-> FALSE]

request(module, image) ==
    IF module = "api" THEN api_request(image) ELSE tesseract_request(image)

\* arguments.append("makebox") / arguments.append("tsv") / nothing
mode_directive(op) ==
    CASE op = "get_textbox" -> <<MAKEBOX>>
      [] op = "get_textdata" -> <<TSV>>
      [] op = "get_text" -> <<>>

\* `if options: arguments.extend(options.get_arguments())`: a dataclass
\* instance is always true, None is false
options_arguments(opts) == IF opts # None THEN get_arguments(opts[1]) ELSE <<>>

build_arguments(op, inputbase, opts) ==
    <<inputbase, STDOUT>> \o options_arguments(opts) \o mode_directive(op)

\* what the operation makes of run_tesseract's result
shape_result(op, r) ==
    IF r.kind = "raise" THEN r
    ELSE CASE op = "get_text" -> r
           [] op = "get_textbox" -> [kind |-> "return", value |-> textbox_records(r.value)]
           [] op = "get_textdata" -> [kind |-> "return", value |-> textdata_records(r.value)]

\* The env and cwd a caller passes are parameters of the three operations,
\* but the calls `run_tesseract(arguments, stdin=image)` and
\* `run_tesseract(arguments)` name neither: run_tesseract sees its defaults.
forwarded_env(env) == None
forwarded_cwd(cwd) == None

\* one public call, whole: the process it spawns (if any), the caller's
\* buffer afterwards and how it ends
public_call(module, op, image, opts, env, cwd, os, buf, outcome) ==
    LET req == request(module, image) IN
    IF req.raises
    THEN [process |-> None, buffer |-> buf,
          ret |-> [kind |-> "raise", exc |-> "TypeError"]]
    ELSE LET run == run_tesseract(build_arguments(op, req.inputbase, opts),
                                  IF req.use_stdin THEN Some(buf) ELSE None,
                                  forwarded_env(env), forwarded_cwd(cwd), os, outcome)
         IN [process |-> Some(run.process),
             buffer |-> IF run.buffer = None THEN buf ELSE run.buffer[1],
             ret |-> shape_result(op, run.ret)]

(***************************************************************************)
(* The program as a state machine: a caller that owns one BytesIO buffer,  *)
(* writes to it, moves its position and calls the three operations; each   *)
(* call runs the engine once, which ends as the environment chooses.       *)
(***************************************************************************)
ImageBytes == {1, 2}

Images ==
    {[type |-> "Path", path |-> <<"a">>],
     [type |-> "str", path |-> <<"a">>],
     [type |-> "BytesIO"],
     [type |-> "int"]}

RichOptions ==
    [DefaultOptions EXCEPT
        !["languages"] = Some(<<<<"e", "n", "g">>, <<"f", "r", "a">>>>),
        !["config"] = Some(<<<<<<"k">>, <<"1">>>>, <<<<"w">>, <<"2">>>>>>),
        !["page_segmentation_mode"] = Some(PSM_RAW_LINE)]

CallOptions == {None, Some(RichOptions)}

\* the env mapping and working directory a caller passes, or neither
CallEnvs == {None, Some(<<<<<<"K">>, <<"V">>>>>>)}
CallCwd(env) == IF env = None THEN None ELSE Some(<<"d">>)

\* how the engine can end: exit code, captured stdout, captured stderr
CallOutcomes ==
    {[returncode |-> 0, stdout |-> <<65, 10, 66, 9, 65, 10, 32, 65>>, stderr |-> <<>>],
     [returncode |-> 1, stdout |-> <<>>, stderr |-> <<69, 10, 69>>]}

Call(op) ==
    \E module \in Modules, image \in Images, opts \in CallOptions,
       env \in CallEnvs, outcome \in CallOutcomes :
        LET c == public_call(module, op, image, opts, env, CallCwd(env),
                             os_name, buffer, outcome)
        IN /\ call = None
           /\ call' = Some([module |-> module, op |-> op, image |-> image,
                            options |-> opts, env |-> env, cwd |-> CallCwd(env),
                            buffer |-> buffer])
           /\ process' = c.process
           /\ buffer' = c.buffer
           /\ ret' = Some(c.ret)
           /\ UNCHANGED <<os_name, previous, argVars, parserVars>>

GetText == Call("get_text")
GetTextbox == Call("get_textbox")
GetTextdata == Call("get_textdata")

\* the caller takes the result: the call's frame is gone, the buffer stays
Finish ==
    /\ call # None
    /\ call' = None /\ process' = None /\ ret' = None
    /\ UNCHANGED <<os_name, buffer, previous, argVars, parserVars>>

\* buffer.write(bytes([b])) between calls: overwrite or extend at the position
BufferWrite ==
    \E b \in ImageBytes :
        /\ call = None
        /\ buffer.pos < MaxBufLen
        /\ buffer' = [content |-> SubSeq(buffer.content, 1, buffer.pos) \o <<b>>
                                   \o SubSeq(buffer.content, buffer.pos + 2, Len(buffer.content)),
                      pos |-> buffer.pos + 1]
        /\ UNCHANGED <<os_name, previous, call, process, ret, argVars, parserVars>>

\* buffer.seek(p)
BufferSeek ==
    \E p \in 0..Len(buffer.content) :
        /\ call = None
        /\ p # buffer.pos
        /\ buffer' = [buffer EXCEPT !.pos = p]
        /\ UNCHANGED <<os_name, previous, call, process, ret, argVars, parserVars>>

Init ==
    /\ InitArguments /\ InitParsers /\ InitProgram
    /\ os_name \in {"nt", "posix"}

Next == GetText \/ GetTextbox \/ GetTextdata \/ Finish \/ BufferWrite \/ BufferSeek

Spec == Init /\ [][Next]_vars

(***************************************************************************)
(* Claims about the request builders, checked under Spec.                  *)
(***************************************************************************)
PathTypes == {"Path", "str"}

\* the argument list the claim describes for the last call
ExpectedArguments ==
    LET c == call[1] IN
    <<IF c.image.type \in PathTypes THEN c.image.path ELSE STDIN, STDOUT>>
    \o (IF c.options = None THEN <<>> ELSE get_arguments(c.options[1]))
    \o (IF c.op = "get_textbox" THEN <<MAKEBOX>>
        ELSE IF c.op = "get_textdata" THEN <<TSV>> ELSE <<>>)

SpawnedForImage ==
    /\ call # None
    /\ process # None
    /\ call[1].image.type \in PathTypes \cup {"BytesIO"}

\* C4: the list handed to the process runner is [input placeholder, "stdout"],
\* then the compiled options, then the mode directive, and the engine is
\* launched with exactly these tokens after the binary name.
C4_ArgumentsReachEngine ==
    SpawnedForImage =>
        /\ process[1].arguments = ExpectedArguments
        /\ process[1].argv = <<TESSERACT_PATH>> \o ExpectedArguments

\* C5: a call whose image is neither a path nor a byte buffer fails with a
\* TypeError and spawns no process.
C5_BadImageIsTypeError ==
    (call # None /\ call[1].image.type \notin PathTypes \cup {"BytesIO"}) =>
        /\ ret[1] = [kind |-> "raise", exc |-> "TypeError"]
        /\ process = None

\* C6: a call that passes the byte buffer pipes the buffer's whole content,
\* from offset 0, to the subprocess's standard input, whatever the read
\* position was when the call started, and leaves the content unchanged.
C6_WholeBufferPiped ==
    (call # None /\ call[1].image.type = "BytesIO") =>
        /\ process # None
        /\ process[1].input = Some(call[1].buffer.content)
        /\ buffer.content = call[1].buffer.content

C6_Witness ==
    /\ call # None
    /\ call[1].image.type = "BytesIO"
    /\ Len(call[1].buffer.content) = MaxBufLen
    /\ call[1].buffer.pos = Len(call[1].buffer.content)
    /\ call[1].buffer.content[1] # call[1].buffer.content[2]
    /\ process # None
    /\ process[1].input = Some(call[1].buffer.content)

(***************************************************************************)
(* The process runner called directly (it is exported): run_tesseract      *)
(* against engines that end with any exit code and any captured streams.   *)
(***************************************************************************)
ReturnCodes == {0, 1, -9}

\* captured streams: empty, "A", U+00E9 in two bytes, and a cut-off sequence
Streams == {<<>>, <<65>>, <<195, 169>>, <<195>>}

RunnerOutcomes ==
    {[returncode |-> rc, stdout |-> out, stderr |-> err] :
        rc \in ReturnCodes, out \in Streams, err \in Streams}

RunnerInit ==
    /\ InitArguments /\ InitParsers
    /\ os_name \in {"nt", "posix"}
    /\ buffer \in {[content |-> <<1, 2>>, pos |-> p] : p \in {0, 1}}
    /\ call = None /\ process = None /\ ret = None /\ previous = None

\* run_tesseract(arguments, stdin=..., env=..., cwd=...)
RunTesseract ==
    \E use_stdin \in BOOLEAN, env \in CallEnvs, outcome \in RunnerOutcomes :
        LET run == run_tesseract(<<STDIN, STDOUT>>,
                                 IF use_stdin THEN Some(buffer) ELSE None,
                                 env, CallCwd(env), os_name, outcome)
        IN /\ call = None
           /\ call' = Some([op |-> "run_tesseract", use_stdin |-> use_stdin,
                            env |-> env, cwd |-> CallCwd(env), buffer |-> buffer])
           /\ process' = Some(run.process)
           /\ buffer' = IF run.buffer = None THEN buffer ELSE run.buffer[1]
           /\ ret' = Some(run.ret)
           /\ UNCHANGED <<os_name, previous, argVars, parserVars>>

\* the caller takes the result and keeps it beside the exit status it saw
FinishRun ==
    /\ call # None
    /\ previous' = Some([returncode |-> process[1].returncode,
                         stdout |-> process[1].stdout,
                         stderr |-> process[1].stderr,
                         ret |-> ret[1]])
    /\ call' = None /\ process' = None /\ ret' = None
    /\ UNCHANGED <<os_name, buffer, argVars, parserVars>>

NextRunner == RunTesseract \/ FinishRun

SpecRunner == RunnerInit /\ [][NextRunner]_vars

(***************************************************************************)
(* Claims about run_tesseract, checked under SpecRunner.                   *)
(***************************************************************************)
\* the text a captured stream spells in UTF-8: Some(text), or None if it
\* spells none
Utf8TextOf(bytes) ==
    CASE bytes = <<>> -> Some(<<>>)
      [] bytes = <<65>> -> Some(<<"A">>)
      [] bytes = <<195, 169>> -> Some(<<"U+00E9">>)
      [] bytes = <<195>> -> None

SelectedStream(o) == IF o.returncode = 0 THEN o.stdout ELSE o.stderr

\* C2: the returned text is the captured stdout decoded as UTF-8 when the
\* exit code is zero and the captured stderr decoded as UTF-8 when it is not;
\* a non-zero exit code raises nothing (only undecodable bytes do).
C2_TextSelectedByExitCode ==
    call # None =>
        LET p == process[1]
            r == ret[1]
        IN /\ (p.returncode = 0 /\ Utf8TextOf(p.stdout) # None) =>
                  r = [kind |-> "return", value |-> Utf8TextOf(p.stdout)[1]]
           /\ (p.returncode # 0 /\ Utf8TextOf(p.stderr) # None) =>
                  r = [kind |-> "return", value |-> Utf8TextOf(p.stderr)[1]]
           /\ r.kind = "raise" =>
                  /\ r.exc = "UnicodeDecodeError"
                  /\ Utf8TextOf(SelectedStream(p)) = None

C2_Witness ==
    /\ call # None
    /\ process[1].returncode # 0
    /\ process[1].stdout = <<65>>
    /\ process[1].stderr = <<195, 169>>
    /\ ret[1].kind = "return"
    /\ ret[1].value = <<"U+00E9">>

BothReturned ==
    /\ call # None
    /\ previous # None
    /\ ret[1].kind = "return"
    /\ previous[1].ret.kind = "return"

DeclaredTag(name, value) == IF name = "dpi" THEN value ELSE value.value

TagDigits(n) == IF n = 0 THEN <<"0">> ELSE IF n = 3 THEN <<"3">>
                ELSE IF n = 13 THEN <<"1", "3">> ELSE <<"7", "0">>

\* C11: a field emits nothing only when it is absent: whenever dpi,
\* page_segmentation_mode or ocr_engine_mode is set to any value of its type,
\* the value whose tag is 0 included, get_arguments emits the field's flag
\* immediately followed by the value's declared tag.
C11_SetFieldEmitsFlagAndTag ==
    arguments_ret # None =>
        \A name \in {"dpi", "page_segmentation_mode", "ocr_engine_mode"} :
            options[name] # None =>
                LET a == arguments_ret[1] IN
                \E i \in 1..(Len(a) - 1) :
                    /\ a[i] = field_to_argument_map[name]
                    /\ a[i + 1] = TagDigits(DeclaredTag(name, options[name][1]))

\* C12: the env overrides and the working directory the caller passes to
\* get_text, get_textbox or get_textdata are those of the one subprocess the
\* call spawns.
C12_EnvAndCwdReachProcess ==
    (call # None /\ process # None) =>
        /\ process[1].env = call[1].env
        /\ process[1].cwd = call[1].cwd
====
